---- MODULE Spec2Model ----
(***************************************************************************)
(* The todos-oapi example of salvo: four request handlers (list_todos,     *)
(* create_todo, update_todo, delete_todo) that share one store,            *)
(* STORE: Lazy<Mutex<Vec<Todo>>>, guarded by a tokio Mutex.                *)
(*                                                                         *)
(* Every request is served by its own task; NumProcs tasks run             *)
(* concurrently and each serves one request after the other.  A handler    *)
(* is modelled statement by statement: reading its input, calling          *)
(* STORE.lock().await, the body of the critical section (one step per loop *)
(* iteration) and the return, which drops the MutexGuard.                  *)
(***************************************************************************)
EXTENDS Integers, Sequences, FiniteSets, TLC

\* ------------------------------------------------------------- bounds
NumProcs   == 2      \* request tasks running concurrently
MaxId      == 2      \* ids are 1..MaxId (u64 in the code)
MaxStore   == 3      \* creates are admitted while the store stays within MaxStore entries
MaxOpt     == 0      \* offset and limit of a list request are absent or in 0..MaxOpt
MaxListLen == 5      \* longest store of the list specification (SpecList)
NumSessions == 2     \* sessions of the flash example

\* ------------------------------------------------------------- program constants
BAD_REQUEST == 400
CREATED     == 201
OK          == 200
NOT_FOUND   == 404
NO_CONTENT  == 204
CONFLICT     == 409     \* declared by the annotation of create_todo
UNAUTHORIZED == 401     \* declared by the annotation of delete_todo
\* std::usize::MAX, the take() count of a list without limit.  TLC's integers are
\* 32 bits wide; any count above every store length takes the whole rest.
UsizeMax    == 2147483647

\* ------------------------------------------------------------- data
Procs  == 1..NumProcs
NoProc == 0
Ids    == 1..MaxId

\* Option<T>: <<>> is None, <<v>> is Some(v)
None         == <<>>
Some(v)      == <<v>>
UnwrapOr(o, d) == IF o = None THEN d ELSE o[1]

\* text and completed flag of the Todos the requests carry
Variants == {<<"Buy coffee", FALSE>>, <<"Buy milk", TRUE>>}
Todo(id, v) == [id |-> id, text |-> v[1], completed |-> v[2]]
Todos  == {Todo(id, v) : id \in Ids, v \in Variants}
NoTodo == [id |-> 0, text |-> "", completed |-> FALSE]

OptValues(max) == {None} \cup {Some(n) : n \in 0..max}
ListOptions(max) == [offset : OptValues(max), limit : OptValues(max)]
DefaultListOptions == [offset |-> None, limit |-> None]

Ops   == {"list", "create", "update", "delete"}
NoReq == [op |-> "none", id |-> 0, todo |-> NoTodo, opts |-> DefaultListOptions,
          key |-> FALSE]
NoRes == [status |-> None, body |-> None]
NoOp  == [op |-> "none", id |-> 0, todo |-> NoTodo, status |-> None]
NoRace == [start |-> <<>>, out |-> [p \in Procs |-> NoOp]]

VARIABLES
    store,      \* the Vec<Todo> inside STORE
    lock,       \* the task that holds the MutexGuard, or NoProc
    waiters,    \* tasks suspended in STORE.lock().await, in arrival order
    pc,         \* position of each task in its handler
    req,        \* the request of each task: handler and parsed input
    res,        \* the Response of each task
    i,          \* loop cursor of create_todo and update_todo
    len,        \* the local len of delete_todo
    committed,  \* history: the store as the last return of a handler left it
    lastOp,     \* history of the sequential client: the request it made last, and the
                \* status it got
    race,       \* history of a race of creates: the store it started on and the
                \* outcome each task noted
    \* the flash-session-store example
    fstore,     \* the flash entry of each session in the session store
    fpc,        \* position of the request each session has under way
    depot,      \* the Depot and Response of that request
    seen        \* history of each session: the request answered last

todoVars  == <<store, lock, waiters, pc, req, res, i, len, committed, lastOp, race>>
flashVars == <<fstore, fpc, depot, seen>>
vars == <<todoVars, flashVars>>

\* ------------------------------------------------------------- iterators
RECURSIVE Skip(_, _)
Skip(s, n) == IF n = 0 \/ s = <<>> THEN s ELSE Skip(Tail(s), n - 1)

RECURSIVE Take(_, _)
Take(s, n) == IF n = 0 \/ s = <<>> THEN <<>> ELSE <<Head(s)>> \o Take(Tail(s), n - 1)

\* (a faulty variant of Retain: only the first matching entry is removed)
RECURSIVE RetainButFirst(_, _)
RetainButFirst(s, id) ==
    IF s = <<>> THEN <<>>
    ELSE IF Head(s).id = id THEN Tail(s)
    ELSE <<Head(s)>> \o RetainButFirst(Tail(s), id)

\* Vec::retain(|todo| todo.id != id)
Retain(s, id) == SelectSeq(s, LAMBDA todo : todo.id # id)

\* ------------------------------------------------------------- handler bodies
\* A frame is what a handler sees while it runs: its position, its locals, the
\* store and its response.  Each operator is one step of a handler on a frame.
Frame(p) == [pc |-> pc[p], i |-> i[p], len |-> len[p], store |-> store, res |-> res[p]]

Entry(op) == CASE op = "list"   -> "list_collect"
               [] op = "create" -> "create_scan"
               [] op = "update" -> "update_scan"
               [] op = "delete" -> "delete_len"

\* (a faulty variant of ListCollect: take is applied before skip)
ListCollectTakeFirst(r, f) ==
    [f EXCEPT !.res.body = Some(Skip(Take(f.store, UnwrapOr(r.opts.limit, UsizeMax)),
                                     UnwrapOr(r.opts.offset, 0))),
              !.pc = "ret"]

\* (a faulty variant of ListCollect: the absent offset defaults to 1)
ListCollectFromOne(r, f) ==
    [f EXCEPT !.res.body = Some(Take(Skip(f.store, UnwrapOr(r.opts.offset, 1)),
                                     UnwrapOr(r.opts.limit, UsizeMax))),
              !.pc = "ret"]

\* list_todos: clone, skip, take, collect, render
ListCollect(r, f) ==
    [f EXCEPT !.res.body = Some(Take(Skip(f.store, UnwrapOr(r.opts.offset, 0)),
                                     UnwrapOr(r.opts.limit, UsizeMax))),
              !.pc = "ret"]

\* (a faulty variant of CreateScan: only the first entry is compared before the push)
CreateScanFirstOnly(r, f) ==
    IF f.i <= Len(f.store) /\ f.store[f.i].id = r.todo.id
    THEN [f EXCEPT !.res.status = Some(BAD_REQUEST), !.i = 0, !.pc = "ret"]
    ELSE [f EXCEPT !.pc = "create_push"]

\* (a faulty variant of CreateScan: a conflicting create overwrites the entry it found)
CreateScanUpsert(r, f) ==
    IF f.i <= Len(f.store)
    THEN IF f.store[f.i].id = r.todo.id
         THEN [f EXCEPT !.store[f.i] = r.todo,
                        !.res.status = Some(BAD_REQUEST), !.i = 0, !.pc = "ret"]
         ELSE [f EXCEPT !.i = f.i + 1]
    ELSE [f EXCEPT !.pc = "create_push"]

\* create_todo: one iteration of the for loop, or the exit from it
CreateScan(r, f) ==
    IF f.i <= Len(f.store)
    THEN IF f.store[f.i].id = r.todo.id
         THEN [f EXCEPT !.res.status = Some(BAD_REQUEST), !.i = 0, !.pc = "ret"]
         ELSE [f EXCEPT !.i = f.i + 1]
    ELSE [f EXCEPT !.pc = "create_push"]

\* (a faulty variant of CreatePush: the Todo is put in front of the others)
CreatePushFront(r, f) ==
    [f EXCEPT !.store = <<r.todo>> \o f.store,
              !.res.status = Some(CREATED), !.i = 0, !.pc = "ret"]

\* create_todo: todos.push(new_todo.into_inner()) and the status 201
CreatePush(r, f) ==
    [f EXCEPT !.store = Append(f.store, r.todo),
              !.res.status = Some(CREATED), !.i = 0, !.pc = "ret"]

\* (a faulty variant of UpdateScan: the entry keeps its id, the rest is replaced)
UpdateScanKeepsId(r, f) ==
    IF f.i <= Len(f.store)
    THEN IF f.store[f.i].id = r.id
         THEN [f EXCEPT !.store[f.i] = [r.todo EXCEPT !.id = r.id],
                        !.res.status = Some(OK), !.i = 0, !.pc = "ret"]
         ELSE [f EXCEPT !.i = f.i + 1]
    ELSE [f EXCEPT !.res.status = Some(NOT_FOUND), !.i = 0, !.pc = "ret"]

\* (a faulty variant of UpdateScan: the exit after the loop reports 200 as well)
UpdateScanAlwaysOk(r, f) ==
    IF f.i <= Len(f.store)
    THEN IF f.store[f.i].id = r.id
         THEN [f EXCEPT !.store[f.i] = r.todo,
                        !.res.status = Some(OK), !.i = 0, !.pc = "ret"]
         ELSE [f EXCEPT !.i = f.i + 1]
    ELSE [f EXCEPT !.res.status = Some(OK), !.i = 0, !.pc = "ret"]

\* (a faulty variant of UpdateScan: no return after the replacement, the loop goes on)
UpdateScanNoReturn(r, f) ==
    IF f.i <= Len(f.store)
    THEN IF f.store[f.i].id = r.id
         THEN [f EXCEPT !.store[f.i] = r.todo,
                        !.res.status = Some(OK), !.i = f.i + 1]
         ELSE [f EXCEPT !.i = f.i + 1]
    ELSE [f EXCEPT !.res.status = Some(NOT_FOUND), !.i = 0, !.pc = "ret"]

\* update_todo: one iteration of the for loop, or the not-found exit after it
UpdateScan(r, f) ==
    IF f.i <= Len(f.store)
    THEN IF f.store[f.i].id = r.id
         THEN [f EXCEPT !.store[f.i] = r.todo,
                        !.res.status = Some(OK), !.i = 0, !.pc = "ret"]
         ELSE [f EXCEPT !.i = f.i + 1]
    ELSE [f EXCEPT !.res.status = Some(NOT_FOUND), !.i = 0, !.pc = "ret"]

\* delete_todo: let len = vec.len()
DeleteLen(r, f) == [f EXCEPT !.len = Len(f.store), !.pc = "delete_retain"]

\* (a faulty variant of DeleteRetain: the predicate of retain is inverted)
DeleteRetainInverted(r, f) ==
    LET kept    == SelectSeq(f.store, LAMBDA todo : todo.id = r.id)
        deleted == Len(kept) # f.len
    IN  [f EXCEPT !.store = kept,
                  !.res.status = IF deleted THEN Some(NO_CONTENT) ELSE Some(NOT_FOUND),
                  !.len = 0, !.pc = "ret"]

\* delete_todo: retain, compare the lengths, set the status
DeleteRetain(r, f) ==
    LET kept    == Retain(f.store, r.id)
        deleted == Len(kept) # f.len
    IN  [f EXCEPT !.store = kept,
                  !.res.status = IF deleted THEN Some(NO_CONTENT) ELSE Some(NOT_FOUND),
                  !.len = 0, !.pc = "ret"]

BodyPcs == {"list_collect", "create_scan", "create_push", "update_scan", "delete_len",
            "delete_retain"}

Step(r, f) == CASE f.pc = "list_collect"  -> ListCollect(r, f)
                [] f.pc = "create_scan"   -> CreateScan(r, f)
                [] f.pc = "create_push"   -> CreatePush(r, f)
                [] f.pc = "update_scan"   -> UpdateScan(r, f)
                [] f.pc = "delete_len"    -> DeleteLen(r, f)
                [] f.pc = "delete_retain" -> DeleteRetain(r, f)

\* ------------------------------------------------------------- flash-session-store
\* The second example: GET /set records two flash messages and redirects to /get,
\* GET /get renders the flash messages that came in with the request.  Each session
\* has one request under way at a time (the client follows the redirect).
Sessions == 1..NumSessions
Routes   == {"set", "get"}

Message(value, level) == [value |-> value, level |-> level]

\* the Depot of a request (incoming and outgoing flash) and its Response
NoDepot == [route |-> "none", incoming |-> None, outgoing |-> <<>>,
            redirect |-> None, body |-> <<>>]
NoSeen  == [last |-> "none", lines |-> 0, set |-> FALSE]

\* (a faulty variant of SetFlashBody: debug is recorded before info)
SetFlashBodySwapped(d) ==
    [d EXCEPT !.outgoing = d.outgoing \o << Message("How is it going?", "debug"),
                                            Message("Hey there!", "info") >>,
              !.redirect = Some("/get")]

\* set_flash: flash.info(..).debug(..), then the redirect to /get
SetFlashBody(d) ==
    [d EXCEPT !.outgoing = d.outgoing \o << Message("Hey there!", "info"),
                                            Message("How is it going?", "debug") >>,
              !.redirect = Some("/get")]

\* writeln!(body, "{} - {}", message.value, message.level): one line of the body
\* (the body is kept as the sequence of its lines)
Line(message) == message.value \o " - " \o message.level

\* (a faulty variant of GetFlashBody: the outgoing flash is rendered)
GetFlashBodyOutgoing(d) ==
    [d EXCEPT !.body = [k \in 1..Len(d.outgoing) |-> Line(d.outgoing[k])]]

\* get_flash: a line for every message of the incoming flash, if there is one
GetFlashBody(d) ==
    [d EXCEPT !.body = IF d.incoming = None THEN <<>>
                       ELSE [k \in 1..Len(d.incoming[1]) |-> Line(d.incoming[1][k])]]

FlashInit ==
    /\ fstore = [s \in Sessions |-> None]
    /\ fpc = [s \in Sessions |-> "idle"]
    /\ depot = [s \in Sessions |-> NoDepot]
    /\ seen = [s \in Sessions |-> NoSeen]

\* ------------------------------------------------------------- actions
Init ==
    /\ store = <<>>
    /\ lock = NoProc
    /\ waiters = <<>>
    /\ pc = [p \in Procs |-> "idle"]
    /\ req = [p \in Procs |-> NoReq]
    /\ res = [p \in Procs |-> NoRes]
    /\ i = [p \in Procs |-> 0]
    /\ len = [p \in Procs |-> 0]
    /\ committed = <<>>
    /\ lastOp = NoOp
    /\ race = NoRace
    /\ FlashInit

\* creates that are under way and may still push
PendingCreates == Cardinality({q \in Procs : req[q].op = "create"})

\* A request reaches its handler.  (The model admits a create only while the store
\* and the creates under way stay within MaxStore.)
Start(p) ==
    /\ pc[p] = "idle"
    /\ \E op \in Ops :
          /\ op = "create" => Len(store) + PendingCreates < MaxStore
          /\ req' = [req EXCEPT ![p] = [NoReq EXCEPT !.op = op]]
    /\ pc' = [pc EXCEPT ![p] = "parse"]
    /\ UNCHANGED <<store, lock, waiters, res, i, len, committed, lastOp>>
    /\ UNCHANGED <<race, flashVars>>

\* list_todos: req.parse_body::<ListOptions>().await.unwrap_or_default()
\* (offset and limit, where present, are in 0..max)
ParseListOf(p, max) ==
    /\ pc[p] = "parse" /\ req[p].op = "list"
    /\ \/ \E o \in ListOptions(max) : req' = [req EXCEPT ![p].opts = o]
       \/ req' = [req EXCEPT ![p].opts = DefaultListOptions]       \* Err(_)
    /\ pc' = [pc EXCEPT ![p] = "lock"]
    /\ UNCHANGED <<store, lock, waiters, res, i, len, committed, lastOp>>
    /\ UNCHANGED <<race, flashVars>>

ParseList(p) == ParseListOf(p, MaxOpt)

\* create_todo: the JsonBody<Todo> argument
ParseCreate(p) ==
    /\ pc[p] = "parse" /\ req[p].op = "create"
    /\ \E t \in Todos : req' = [req EXCEPT ![p].todo = t]
    /\ pc' = [pc EXCEPT ![p] = "lock"]
    /\ UNCHANGED <<store, lock, waiters, res, i, len, committed, lastOp>>
    /\ UNCHANGED <<race, flashVars>>

\* update_todo: the PathParam<u64> argument and req.parse_body::<Todo>().await.unwrap()
ParseUpdate(p) ==
    /\ pc[p] = "parse" /\ req[p].op = "update"
    /\ \/ /\ \E id \in Ids, t \in Todos : req' = [req EXCEPT ![p].id = id, ![p].todo = t]
          /\ pc' = [pc EXCEPT ![p] = "lock"]
       \/ /\ pc' = [pc EXCEPT ![p] = "panicked"]                   \* unwrap of Err(_)
          /\ UNCHANGED req
    /\ UNCHANGED <<store, lock, waiters, res, i, len, committed, lastOp>>
    /\ UNCHANGED <<race, flashVars>>

\* (a faulty variant of ParseDelete: the guard is taken before the id is parsed, and
\* a request whose id does not parse keeps it)
ParseDeleteHoldsGuard(p) ==
    /\ pc[p] = "parse" /\ req[p].op = "delete"
    /\ \/ /\ \E id \in Ids, key \in BOOLEAN :
                 req' = [req EXCEPT ![p].id = id, ![p].key = key]
          /\ pc' = [pc EXCEPT ![p] = "lock"]
          /\ UNCHANGED lock
       \/ /\ lock = NoProc
          /\ lock' = p
          /\ pc' = [pc EXCEPT ![p] = "panicked"]
          /\ UNCHANGED req
    /\ UNCHANGED <<store, waiters, res, i, len, committed, lastOp>>
    /\ UNCHANGED <<race, flashVars>>

\* delete_todo: req.param::<u64>("id").unwrap()
ParseDelete(p) ==
    /\ pc[p] = "parse" /\ req[p].op = "delete"
    /\ \/ /\ \E id \in Ids, key \in BOOLEAN :
                 req' = [req EXCEPT ![p].id = id, ![p].key = key]
          /\ pc' = [pc EXCEPT ![p] = "lock"]
       \/ /\ pc' = [pc EXCEPT ![p] = "panicked"]                   \* unwrap of None
          /\ UNCHANGED req
    /\ UNCHANGED <<store, lock, waiters, res, i, len, committed, lastOp>>
    /\ UNCHANGED <<race, flashVars>>

\* The panic unwinds the handler: the request ends without a response.
Unwind(p) ==
    /\ pc[p] = "panicked"
    /\ pc' = [pc EXCEPT ![p] = "idle"]
    /\ req' = [req EXCEPT ![p] = NoReq]
    /\ UNCHANGED <<store, lock, waiters, res, i, len, committed, lastOp>>
    /\ UNCHANGED <<race, flashVars>>

\* (a faulty variant of LockCall: the handler enters its body without waiting for the guard)
LockCallNoWait(p) ==
    /\ pc[p] = "lock"
    /\ lock' = p
    /\ pc' = [pc EXCEPT ![p] = Entry(req[p].op)]
    /\ i' = [i EXCEPT ![p] = 1]
    /\ UNCHANGED <<store, waiters, req, res, len, committed, lastOp>>
    /\ UNCHANGED <<race, flashVars>>

\* STORE.lock().await: the guard at once when the mutex is free, else the task joins
\* the queue of waiters (tokio's Mutex serves them first in, first out).
LockCall(p) ==
    /\ pc[p] = "lock"
    /\ IF lock = NoProc
       THEN /\ lock' = p
            /\ pc' = [pc EXCEPT ![p] = Entry(req[p].op)]
            /\ i' = [i EXCEPT ![p] = 1]
            /\ UNCHANGED waiters
       ELSE /\ waiters' = Append(waiters, p)
            /\ pc' = [pc EXCEPT ![p] = "queued"]
            /\ UNCHANGED <<lock, i>>
    /\ UNCHANGED <<store, req, res, len, committed, lastOp>>
    /\ UNCHANGED <<race, flashVars>>

\* One step of the handler's body, between the lock and the return.
Do(p, at) ==
    /\ pc[p] = at
    /\ LET f == Step(req[p], Frame(p))
       IN  /\ pc' = [pc EXCEPT ![p] = f.pc]
           /\ i' = [i EXCEPT ![p] = f.i]
           /\ len' = [len EXCEPT ![p] = f.len]
           /\ store' = f.store
           /\ res' = [res EXCEPT ![p] = f.res]
    /\ UNCHANGED <<lock, waiters, req, committed, lastOp>>
    /\ UNCHANGED <<race, flashVars>>

List(p)      == Do(p, "list_collect")
Create(p)    == Do(p, "create_scan")
Push(p)      == Do(p, "create_push")
Update(p)    == Do(p, "update_scan")
DeleteLn(p)  == Do(p, "delete_len")
Delete(p)    == Do(p, "delete_retain")

Body(p) == List(p) \/ Create(p) \/ Push(p) \/ Update(p) \/ DeleteLn(p) \/ Delete(p)

\* (a faulty variant of Leave: the guard is not dropped when the handler returns)
LeaveKeepsGuard(p) ==
    /\ pc[p] = "ret"
    /\ pc' = [pc EXCEPT ![p] = "idle"]
    /\ i' = [i EXCEPT ![p] = 0]
    /\ req' = [req EXCEPT ![p] = NoReq]
    /\ res' = [res EXCEPT ![p] = NoRes]
    /\ committed' = store
    /\ UNCHANGED <<store, lock, waiters, len>>
    /\ UNCHANGED flashVars

\* The handler returns: its response is complete and the guard is dropped, which
\* hands the mutex to the first waiter if there is one.
Leave(p) ==
    /\ pc[p] = "ret"
    /\ IF waiters = <<>>
       THEN /\ lock' = NoProc
            /\ pc' = [pc EXCEPT ![p] = "idle"]
            /\ i' = [i EXCEPT ![p] = 0]
            /\ UNCHANGED waiters
       ELSE LET q == Head(waiters)
            IN  /\ lock' = q
                /\ waiters' = Tail(waiters)
                /\ pc' = [pc EXCEPT ![p] = "idle", ![q] = Entry(req[q].op)]
                /\ i' = [i EXCEPT ![p] = 0, ![q] = 1]
    /\ req' = [req EXCEPT ![p] = NoReq]
    /\ res' = [res EXCEPT ![p] = NoRes]
    /\ committed' = store
    /\ UNCHANGED <<store, len>>
    /\ UNCHANGED flashVars

\* what the sequential client notes when the response of task p arrives
Noted(p) == [op |-> req[p].op, id |-> req[p].id, todo |-> req[p].todo,
             status |-> res[p].status]

\* the return of a handler, as the concurrent tasks and as the sequential client see it
Return(p)      == Leave(p) /\ UNCHANGED <<lastOp, race>>
ReturnNoted(p) == Leave(p) /\ lastOp' = Noted(p) /\ UNCHANGED race
\* ... and as the clients of a race of creates see it
ReturnRace(p)  == Leave(p) /\ race' = [race EXCEPT !.out[p] = Noted(p)] /\ UNCHANGED lastOp

\* ------------------------------------------------------------- specifications
\* Spec: NumProcs tasks serve requests concurrently.
Next ==
    \E p \in Procs :
        \/ Start(p)
        \/ ParseList(p)
        \/ ParseCreate(p)
        \/ ParseUpdate(p)
        \/ ParseDelete(p)
        \/ Unwind(p)
        \/ LockCall(p)
        \/ List(p)
        \/ Create(p)
        \/ Push(p)
        \/ Update(p)
        \/ DeleteLn(p)
        \/ Delete(p)
        \/ Return(p)

Spec == Init /\ [][Next]_vars

\* FairSpec: the runtime polls every task that can run, and the mutex wakes its
\* waiters first in, first out.  Whether a request arrives, and whether its input
\* ever arrives in full, is up to the client: Start and the Parse steps are not fair.
Fairness == \A p \in Procs : WF_vars(LockCall(p)) /\ WF_vars(Body(p)) /\ WF_vars(Return(p))

FairSpec == Spec /\ Fairness

\* SeqSpec: one client sends one request after the other, each after the response
\* to the one before, and keeps the last request and its status in lastOp.
Client == CHOOSE p \in Procs : \A q \in Procs : p <= q

SeqNext ==
    \/ Start(Client)
    \/ ParseList(Client)
    \/ ParseCreate(Client)
    \/ ParseUpdate(Client)
    \/ ParseDelete(Client)
    \/ Unwind(Client)
    \/ LockCall(Client)
    \/ List(Client)
    \/ Create(Client)
    \/ Push(Client)
    \/ Update(Client)
    \/ DeleteLn(Client)
    \/ Delete(Client)
    \/ ReturnNoted(Client)

SeqSpec == Init /\ [][SeqNext]_vars

\* SpecList: the client lists a store that creates of the ids 1, 2, ... have filled,
\* up to MaxListLen entries, with every offset and limit up to one past that length.
InitList ==
    /\ \E n \in 0..MaxListLen :
          \E v \in [1..n -> Variants] : store = [k \in 1..n |-> Todo(k, v[k])]
    /\ lock = NoProc
    /\ waiters = <<>>
    /\ pc = [p \in Procs |-> IF p = Client THEN "parse" ELSE "idle"]
    /\ req = [p \in Procs |-> IF p = Client THEN [NoReq EXCEPT !.op = "list"] ELSE NoReq]
    /\ res = [p \in Procs |-> NoRes]
    /\ i = [p \in Procs |-> 0]
    /\ len = [p \in Procs |-> 0]
    /\ committed = store
    /\ lastOp = IF store = <<>> THEN NoOp
                ELSE [op |-> "create", id |-> 0, todo |-> store[Len(store)],
                      status |-> Some(CREATED)]
    /\ race = NoRace
    /\ FlashInit

ListNext ==
    \/ ParseListOf(Client, MaxListLen + 1)
    \/ LockCall(Client)
    \/ List(Client)
    \/ ReturnNoted(Client)

SpecList == InitList /\ [][ListNext]_vars

\* SpecRace: every task has a create request under way at the same time, on a
\* store that creates of the ids 1, 2, ... have filled; each client notes the
\* response of its request.
InitRace ==
    /\ \E n \in 0..MaxId :
          \E v \in [1..n -> Variants] : store = [k \in 1..n |-> Todo(k, v[k])]
    /\ lock = NoProc
    /\ waiters = <<>>
    /\ pc = [p \in Procs |-> "parse"]
    /\ req = [p \in Procs |-> [NoReq EXCEPT !.op = "create"]]
    /\ res = [p \in Procs |-> NoRes]
    /\ i = [p \in Procs |-> 0]
    /\ len = [p \in Procs |-> 0]
    /\ committed = store
    /\ lastOp = NoOp
    /\ race = [NoRace EXCEPT !.start = store]
    /\ FlashInit

RaceNext ==
    \E p \in Procs :
        \/ ParseCreate(p)
        \/ LockCall(p)
        \/ Create(p)
        \/ Push(p)
        \/ ReturnRace(p)

SpecRace == InitRace /\ [][RaceNext]_vars

\* SpecFlash: the flash example.  The flash middleware and the session store are
\* not part of the example's source; they are modelled as the specification
\* describes them: the outgoing flash of a request is kept in the session and is the
\* incoming flash of the next request of that session, and of no request after it.

\* A request of session s arrives: the middleware loads the session's flash entry as
\* the incoming flash and starts with an empty outgoing flash.
FlashArrive(s) ==
    /\ fpc[s] = "idle"
    /\ \E route \in Routes :
          /\ fpc' = [fpc EXCEPT ![s] = route]
          /\ depot' = [depot EXCEPT ![s] = [NoDepot EXCEPT !.route = route,
                                                           !.incoming = fstore[s]]]
    /\ UNCHANGED <<fstore, seen>>
    /\ UNCHANGED todoVars

SetFlash(s) ==
    /\ fpc[s] = "set"
    /\ depot' = [depot EXCEPT ![s] = SetFlashBody(depot[s])]
    /\ fpc' = [fpc EXCEPT ![s] = "done"]
    /\ UNCHANGED <<fstore, seen>>
    /\ UNCHANGED todoVars

GetFlash(s) ==
    /\ fpc[s] = "get"
    /\ depot' = [depot EXCEPT ![s] = GetFlashBody(depot[s])]
    /\ fpc' = [fpc EXCEPT ![s] = "done"]
    /\ UNCHANGED <<fstore, seen>>
    /\ UNCHANGED todoVars

\* The response leaves: the middleware keeps the outgoing flash in the session, or
\* clears the session's entry when there is none.
FlashDepart(s) ==
    /\ fpc[s] = "done"
    /\ fstore' = [fstore EXCEPT ![s] = IF depot[s].outgoing = <<>> THEN None
                                       ELSE Some(depot[s].outgoing)]
    /\ seen' = [seen EXCEPT ![s] = [last  |-> depot[s].route,
                                    lines |-> Len(depot[s].body),
                                    set   |-> seen[s].set \/ depot[s].route = "set"]]
    /\ fpc' = [fpc EXCEPT ![s] = "idle"]
    /\ depot' = [depot EXCEPT ![s] = NoDepot]
    /\ UNCHANGED todoVars

FlashNext ==
    \E s \in Sessions :
        \/ FlashArrive(s)
        \/ SetFlash(s)
        \/ GetFlash(s)
        \/ FlashDepart(s)

SpecFlash == Init /\ [][FlashNext]_vars

\* ------------------------------------------------------------- vocabulary of the claims
Max(a, b) == IF a >= b THEN a ELSE b
Min(a, b) == IF a <= b THEN a ELSE b

Positions(s, id) == {k \in 1..Len(s) : s[k].id = id}
HasId(s, id)     == Positions(s, id) # {}
Occurrences(s, t) == Cardinality({k \in 1..Len(s) : s[k] = t})

\* task p has run the body of handler op to its end and is about to return
AtReturn(p, op) == pc[p] = "ret" /\ req[p].op = op
InBody(p)       == pc[p] \in BodyPcs \cup {"ret"}

\* the handler of request r run alone, without interruption, on store s
RECURSIVE Run(_, _)
Run(r, f) == IF f.pc = "ret" THEN f ELSE Run(r, Step(r, f))
Alone(r, s) == Run(r, [pc |-> Entry(r.op), i |-> 1, len |-> 0, store |-> s, res |-> NoRes])

\* ------------------------------------------------------------- C1
\* C1: the store never contains two entries with the same id.  update_todo writes the
\* body Todo, its id included, over the entry of the path id, so this is violated:
\* create id 1, create id 2, update(1, Todo with id 2).
C1_UniqueIds ==
    \A a, b \in 1..Len(store) : store[a].id = store[b].id => a = b

\* ------------------------------------------------------------- C2
\* C2: at most one handler holds the store lock; a handler is in its body only while
\* it holds the lock; the store changes only in the body of the holder; and when a
\* handler returns, the store and its response are those of the handler run alone
\* on the store the handler before it left: the handlers take effect one at a time,
\* in the order in which they got the lock.
C2_Serialized ==
    /\ \A p, q \in Procs : InBody(p) /\ InBody(q) => p = q
    /\ \A p \in Procs : InBody(p) <=> lock = p
    /\ lock = NoProc => store = committed
    /\ \A p \in Procs :
          pc[p] = "ret" =>
              LET f == Alone(req[p], committed)
              IN  store = f.store /\ res[p] = f.res

\* a create has pushed and is about to return while another handler waits for the lock
C2_Witness ==
    \E p, q \in Procs :
        /\ AtReturn(p, "create") /\ store # committed
        /\ pc[q] = "queued" /\ req[q].op = "create" /\ req[q].todo.id = req[p].todo.id

\* ------------------------------------------------------------- C3
\* C3: create(todo) reports conflict (status 400) if and only if some entry of the
\* store before the call has the id of todo; otherwise it reports success (201) and
\* the store is the store before the call with todo appended as its last entry.
C3_CreateContract ==
    \A p \in Procs :
        AtReturn(p, "create") =>
            LET t == req[p].todo
            IN  /\ (res[p].status = Some(BAD_REQUEST)) <=> HasId(committed, t.id)
                /\ ~HasId(committed, t.id) =>
                       res[p].status = Some(CREATED) /\ store = committed \o <<t>>

\* a create succeeds on a store that is not empty, right after a create that conflicted
C3_Witness ==
    /\ AtReturn(Client, "create") /\ res[Client].status = Some(CREATED)
    /\ committed # <<>> /\ store # committed
    /\ lastOp.op = "create" /\ lastOp.status = Some(BAD_REQUEST)

\* ------------------------------------------------------------- C4
\* C4: a create right after a successful create of a Todo with the same id reports
\* conflict and leaves the store as it was: the only entry of that id is still the
\* first Todo, text and completed flag included.
C4_SecondCreateConflicts ==
    \A p \in Procs :
        ( /\ AtReturn(p, "create")
          /\ lastOp.op = "create" /\ lastOp.status = Some(CREATED)
          /\ req[p].todo.id = lastOp.todo.id )
        => /\ res[p].status = Some(BAD_REQUEST)
           /\ store = committed
           /\ Positions(store, lastOp.todo.id) = {Len(store)}
           /\ store[Len(store)] = lastOp.todo

\* the second create carries another text and completed flag than the first
C4_Witness ==
    /\ AtReturn(Client, "create")
    /\ lastOp.op = "create" /\ lastOp.status = Some(CREATED)
    /\ req[Client].todo.id = lastOp.todo.id
    /\ req[Client].todo.text # lastOp.todo.text
    /\ req[Client].todo.completed # lastOp.todo.completed

\* ------------------------------------------------------------- C5
\* C5: update(id, todo) reports not_found (404) if and only if no entry of the store
\* before the call has the path id; otherwise it reports success (200) and the
\* store is the store before the call with the first entry of the path id, and no
\* other, replaced by the body Todo at its position.
First(S) == CHOOSE k \in S : \A j \in S : k <= j

C5_UpdateContract ==
    \A p \in Procs :
        AtReturn(p, "update") =>
            LET hits == Positions(committed, req[p].id)
            IN  /\ (res[p].status = Some(NOT_FOUND)) <=> (hits = {})
                /\ hits # {} =>
                       /\ res[p].status = Some(OK)
                       /\ store = [committed EXCEPT ![First(hits)] = req[p].todo]

\* an update on a store with two entries of the path id changes the first of them
C5_Witness ==
    /\ AtReturn(Client, "update")
    /\ Cardinality(Positions(committed, req[Client].id)) = 2
    /\ store[1] # committed[1] /\ store[2] = committed[2]
    /\ store[2] # req[Client].todo

\* ------------------------------------------------------------- C6
\* C6: delete(id) removes every entry of the id and no other: afterwards no entry of
\* the id remains and the other entries are there as before, in their order; it
\* reports not_found (404) if and only if no entry was removed, else 204.
C6_DeleteContract ==
    \A p \in Procs :
        AtReturn(p, "delete") =>
            LET id   == req[p].id
                hits == Positions(committed, id)
            IN  /\ ~HasId(store, id)
                /\ Len(store) = Len(committed) - Cardinality(hits)
                /\ \A k \in 1..Len(committed) :
                       k \notin hits =>
                           store[k - Cardinality({j \in hits : j < k})] = committed[k]
                /\ (res[p].status = Some(NOT_FOUND)) <=> (Len(store) = Len(committed))
                /\ res[p].status \in {Some(NOT_FOUND), Some(NO_CONTENT)}

\* a delete on a store that holds two entries of the id
C6_Witness ==
    /\ AtReturn(Client, "delete")
    /\ Cardinality(Positions(committed, req[Client].id)) = 2
    /\ res[Client].status = Some(NO_CONTENT)

\* ------------------------------------------------------------- C7
\* C7: a delete(id) right after a create of a Todo of that id finds the entry and
\* leaves the store without any entry of the id; a delete(id) right after a
\* delete(id) reports not-found (404) and leaves the store as it was.
C7_DeleteAfterCreate ==
    \A p \in Procs :
        AtReturn(p, "delete") =>
            /\ (lastOp.op = "create" /\ lastOp.todo.id = req[p].id) =>
                   HasId(committed, req[p].id) /\ ~HasId(store, req[p].id)
            /\ (lastOp.op = "delete" /\ lastOp.id = req[p].id) =>
                   res[p].status = Some(NOT_FOUND) /\ store = committed

\* the second of two deletes of an id, the first of which removed an entry
C7_Witness ==
    /\ AtReturn(Client, "delete")
    /\ lastOp.op = "delete" /\ lastOp.id = req[Client].id
    /\ lastOp.status = Some(NO_CONTENT)
    /\ store # <<>>

\* ------------------------------------------------------------- C8
\* C8 (under SpecList): list(offset, limit) returns the entries of the store in store
\* order from index offset on (0 when absent), at most limit of them (all the rest
\* when absent), and the empty sequence when offset is at or past the length of the
\* store; it leaves the store as it is.  list(offset=2, limit=1) on a store of 5
\* entries returns exactly the entry at index 2 (counting from 0).
C8_ListContract ==
    \A p \in Procs :
        AtReturn(p, "list") =>
            LET off  == UnwrapOr(req[p].opts.offset, 0)
                rest == Max(0, Len(store) - off)
                cnt  == IF req[p].opts.limit = None THEN rest
                        ELSE Min(req[p].opts.limit[1], rest)
                out  == res[p].body[1]
            IN  /\ res[p].body # None
                /\ Len(out) = cnt
                /\ \A k \in 1..cnt : out[k] = store[off + k]
                /\ off >= Len(store) => out = <<>>
                /\ ( /\ req[p].opts = [offset |-> Some(2), limit |-> Some(1)]
                     /\ Len(store) = 5 ) => out = <<store[3]>>
                /\ store = committed

\* list(offset=2, limit=1) has run on a store of 5 entries
C8_Witness ==
    /\ AtReturn(Client, "list")
    /\ req[Client].opts = [offset |-> Some(2), limit |-> Some(1)]
    /\ Len(store) = 5
    /\ res[Client].body = Some(<<store[3]>>)

\* ------------------------------------------------------------- C9
\* C9, as stated: the Todo of a create occurs exactly once in the result of a list
\* without offset and limit that follows it directly, whatever the store and the
\* Todo were.  Violated: a create that conflicts adds nothing, so its Todo occurs
\* as often as it did before (not at all when the entry of that id is another Todo).
C9_Original ==
    \A p \in Procs :
        ( /\ AtReturn(p, "list") /\ req[p].opts = DefaultListOptions
          /\ lastOp.op = "create" )
        => Occurrences(res[p].body[1], lastOp.todo) = 1

\* C9, amended: the Todo of a create that succeeded (201) occurs exactly once in the
\* result of a list without offset and limit that follows it directly.
C9_CreatedListedOnce ==
    \A p \in Procs :
        ( /\ AtReturn(p, "list") /\ req[p].opts = DefaultListOptions
          /\ lastOp.op = "create" /\ lastOp.status = Some(CREATED) )
        => Occurrences(res[p].body[1], lastOp.todo) = 1

\* a list of a store of two entries right after the create of the second
C9_Witness ==
    /\ AtReturn(Client, "list") /\ req[Client].opts = DefaultListOptions
    /\ lastOp.op = "create" /\ lastOp.status = Some(CREATED)
    /\ Len(store) = 2 /\ res[Client].body = Some(store)

\* ------------------------------------------------------------- C10
\* C10 (under FairSpec): no reachable state is a deadlock: some step is always
\* possible, and whenever a handler waits for the lock, the lock is held by another
\* handler that is inside its body and can take its next step.  A handler that is
\* about to return has its response and holds the lock, and one that has returned
\* holds it no more.  Every handler that has requested the lock eventually returns:
\* it got the lock, ran to one of its returns (create's conflict return and update's
\* success return among them), had its response, and released the lock.
Requested(p) == pc[p] \in {"lock", "queued"} \cup BodyPcs \cup {"ret"}

Appended(p) == store = committed \o <<req[p].todo>>
Replaced(p) ==
    \E k \in Positions(committed, req[p].id) :
        store = [committed EXCEPT ![k] = req[p].todo]
Removed(p)  == Len(store) < Len(committed)

Rendered(s) == fpc[s] = "done" /\ depot[s].route = "get"

C12_FlashShownOnce ==
    \A s \in Sessions :
        Rendered(s) =>
            /\ ~seen[s].set => depot[s].body = <<>>
            /\ seen[s].last = "set" => Len(depot[s].body) = 2
            /\ seen[s].last = "get" => depot[s].body = <<>>

\* the second of two /get after a /set: the first showed two lines, this one none
C12_Witness ==
    \E s \in Sessions :
        /\ Rendered(s) /\ depot[s].body = <<>>
        /\ seen[s].set /\ seen[s].last = "get" /\ seen[s].lines = 2

\* ------------------------------------------------------------- C13
\* C13 (under SpecFlash): the body of /get has one line "<value> - <level>" for every
\* pending flash message of the session, in the order in which /set appended them,
\* none dropped and none twice: right after a /set these are "Hey there! - info"
\* and then "How is it going? - debug".
Pending(s) == IF fstore[s] = None THEN <<>> ELSE fstore[s][1]

C13_FlashInOrder ==
    \A s \in Sessions :
        Rendered(s) =>
            /\ Len(depot[s].body) = Len(Pending(s))
            /\ \A k \in 1..Len(Pending(s)) :
                   depot[s].body[k] = Pending(s)[k].value \o " - " \o Pending(s)[k].level
            /\ seen[s].last = "set" =>
                   depot[s].body = << "Hey there! - info", "How is it going? - debug" >>

\* /get has rendered the two messages of the /set before it
C13_Witness ==
    \E s \in Sessions :
        /\ Rendered(s) /\ seen[s].last = "set"
        /\ depot[s].body = << "Hey there! - info", "How is it going? - debug" >>


\* ------------------------------------------------------------- C14
\* C14 (under SeqSpec): a create whose id is already in the store is answered with
\* the status the handler's annotation declares for "Todo already exists", 409.
C14_ConflictIs409 ==
    AtReturn(Client, "create") /\ HasId(committed, req[Client].todo.id)
        => res[Client].status = Some(CONFLICT)

\* ------------------------------------------------------------- C15
\* C15 (under SeqSpec): a delete that presents no api_key is answered with 401 and
\* removes nothing from the store.
C15_DeleteNeedsKey ==
    AtReturn(Client, "delete") /\ ~req[Client].key
        => /\ res[Client].status = Some(UNAUTHORIZED)
           /\ store = committed


\* ------------------------------------------------------------- C16
\* C16 (under SpecRace): when several creates of the same id run concurrently on a
\* store that has no entry of that id, exactly one of them is answered 201 and
\* every other one with the conflict status; the store ends with exactly one entry
\* of that id, and it is the Todo of the request that was answered 201.
Claimants(id) == {p \in Procs : race.out[p].op = "create" /\ race.out[p].todo.id = id}
Winners(id)   == {p \in Claimants(id) : race.out[p].status = Some(CREATED)}
RaceOver      == \A p \in Procs : pc[p] = "idle"

C16_OneCreateWins ==
    \A id \in Ids :
        ~HasId(race.start, id) =>
            /\ Cardinality(Winners(id)) <= 1
            /\ RaceOver /\ Claimants(id) # {} =>
                  /\ \E w \in Claimants(id) :
                        /\ Winners(id) = {w}
                        /\ \A k \in Positions(store, id) : store[k] = race.out[w].todo
                  /\ \A p \in Claimants(id) \ Winners(id) :
                        race.out[p].status = Some(BAD_REQUEST)
                  /\ Cardinality(Positions(store, id)) = 1

\* two creates of one id with different Todos, on a store of another id, are over
C16_Witness ==
    /\ RaceOver /\ race.start # <<>>
    /\ \E id \in Ids :
          /\ ~HasId(race.start, id)
          /\ Cardinality(Claimants(id)) > 1
          /\ \E p, q \in Claimants(id) : race.out[p].todo # race.out[q].todo


\* ------------------------------------------------------------- C17
\* C17 (under SeqSpec): an update answered 200 writes the whole body Todo, its id
\* included, over the first entry that had the path id: afterwards that position
\* holds the body and has the body's id, the store is as long as before, and every
\* other position holds what it held before.
C17_UpdateOverwritesWhole ==
    AtReturn(Client, "update") /\ res[Client].status = Some(OK) =>
        /\ HasId(committed, req[Client].id)
        /\ LET k == First(Positions(committed, req[Client].id))
           IN  /\ store[k] = req[Client].todo
               /\ store[k].id = req[Client].todo.id
               /\ store[k].text = req[Client].todo.text
               /\ store[k].completed = req[Client].todo.completed
               /\ Len(store) = Len(committed)
               /\ \A j \in 1..Len(committed) : j # k => store[j] = committed[j]

\* the body has another id than the path, and text and flag differ from the old entry's
C17_Witness ==
    /\ AtReturn(Client, "update") /\ res[Client].status = Some(OK)
    /\ req[Client].todo.id # req[Client].id
    /\ Len(committed) > 1
    /\ \E k \in Positions(committed, req[Client].id) :
          /\ committed[k].text # req[Client].todo.text
          /\ store[k].id = req[Client].todo.id


\* ------------------------------------------------------------- C18
\* C18 (under SeqSpec): no operation reorders the store.  A create leaves it as it
\* was or appends its Todo at the end; an update keeps the length, and every position
\* holds what it held or the body; after a delete the entries that remain are in the
\* order they were in; a list leaves the store as it was, and without offset and
\* limit it returns the whole store in store order.
\* store s is got from store t by removing entries, the others keeping their order
KeepsOrder(s, t) ==
    \E f \in [1..Len(s) -> 1..Len(t)] :
        /\ \A a, b \in 1..Len(s) : a < b => f[a] < f[b]
        /\ \A k \in 1..Len(s) : s[k] = t[f[k]]

C18_NoReordering ==
    /\ AtReturn(Client, "create") =>
          /\ Len(store) \in {Len(committed), Len(committed) + 1}
          /\ \A k \in 1..Len(committed) : store[k] = committed[k]
          /\ Len(store) > Len(committed) => store[Len(store)] = req[Client].todo
    /\ AtReturn(Client, "update") =>
          /\ Len(store) = Len(committed)
          /\ \A k \in 1..Len(store) : store[k] \in {committed[k], req[Client].todo}
    /\ AtReturn(Client, "delete") =>
          /\ KeepsOrder(store, committed)
          /\ \A k \in 1..Len(committed) :
                 committed[k].id # req[Client].id => Occurrences(store, committed[k]) > 0
    /\ AtReturn(Client, "list") =>
          /\ store = committed
          /\ req[Client].opts = DefaultListOptions => res[Client].body = Some(committed)

\* a delete has removed the entry in the middle of a store of three
C18_Witness ==
    /\ AtReturn(Client, "delete")
    /\ Len(committed) = 3
    /\ store = << committed[1], committed[3] >>
    /\ committed[2].id = req[Client].id


\* ------------------------------------------------------------- C19
\* C19 (under FairSpec): a handler requests the store lock only after it has read
\* and parsed its input.  A request that is still reading its input, or that has
\* aborted because its input did not parse, neither holds the lock nor waits for
\* it; the steps it takes there leave the store and the lock as they are; and
\* every other request that has asked for the lock meanwhile completes.
InInput(p) == pc[p] \in {"parse", "panicked"}
InQueue(p) == \E k \in 1..Len(waiters) : waiters[k] = p

InputStepKeepsStore ==
    \A p \in Procs :
        InInput(p) /\ pc'[p] # pc[p] =>
            /\ store' = store /\ lock' = lock /\ waiters' = waiters
            /\ pc'[p] \in {"lock", "panicked", "idle"}

C19_InputBeforeLock ==
    /\ [](\A p \in Procs : InInput(p) => lock # p /\ ~InQueue(p))
    /\ [](\A p \in Procs : lock = p \/ InQueue(p) => Requested(p))
    /\ [][InputStepKeepsStore]_vars
    /\ \A p, q \in Procs :
          p # q => ((InInput(p) /\ Requested(q)) ~> ~Requested(q))

\* while one request has aborted on its input, another has changed the store and is
\* about to return
C19_Witness ==
    \E p, q \in Procs :
        /\ pc[p] = "panicked"
        /\ pc[q] = "ret" /\ lock = q /\ store # committed

====
